---- MODULE Spec2Model ----
(***************************************************************************)
(* Model of the wireguard-go bootstrap (main.go) and of device.NewLogger.  *)
(* A chain of process instances is modelled: the process the user starts   *)
(* and the instances it relaunches through os.StartProcess.  Each instance *)
(* runs main(): argument parsing, tunnel and UAPI-socket resolution, the   *)
(* daemonizing relaunch, and in foreground mode the accept goroutine, the  *)
(* connection handlers and the select that starts the teardown.            *)
(***************************************************************************)
EXTENDS Integers, Sequences, FiniteSets, TLC

\* ------------------------------------------------------------------ bounds
MaxProcs   == 3   \* process instances in one relaunch chain
MaxConns   == 2   \* configuration connections that arrive at the listener
MaxFd      == 5   \* highest descriptor slot of a process

Procs == 1..MaxProcs
Slots == 0..MaxFd

\* ------------------------------------------------------- program constants
ExitSetupSuccess == 0
ExitSetupFailed  == 1

ENV_WG_TUN_FD             == "WG_TUN_FD"
ENV_WG_UAPI_FD            == "WG_UAPI_FD"
ENV_WG_PROCESS_FOREGROUND == "WG_PROCESS_FOREGROUND"
ENV_LOG_LEVEL             == "LOG_LEVEL"

LogLevelSilent  == 0
LogLevelError   == 1
LogLevelVerbose == 2

SIGTERM == "SIGTERM"
SIGINT  == "SIGINT"

\* --------------------------------------------------------------- inputs
\* os.Args of the first process
ArgVectors ==
  { <<"wireguard-go">>,
    <<"wireguard-go", "--version">>,
    <<"wireguard-go", "wg0">>,
    <<"wireguard-go", "-f", "wg0">>,
    <<"wireguard-go", "--foreground">>,
    <<"wireguard-go", "wg0", "extra">>,
    <<"wireguard-go", "-f", "wg0", "extra">> }

\* values of the environment variables of the first process ("" = unset)
MarkerValues    == {"", "1", "0"}
TunFdStrings    == {"", "3", "4", "abc", "4294967296"}
UapiFdStrings   == {"", "3", "4", "abc"}
LogLevelStrings == {"", "verbose", "debug", "error", "silent", "info"}

\* the characters of the descriptor strings above
Chars(s) ==
  CASE s = ""           -> <<>>
    [] s = "3"          -> <<"3">>
    [] s = "4"          -> <<"4">>
    [] s = "abc"        -> <<"a", "b", "c">>
    [] s = "4294967296" -> <<"4", "2", "9", "4", "9", "6", "7", "2", "9", "6">>

\* descriptor table entries
Closed       == [kind |-> "closed", nb |-> FALSE, name |-> ""]
Tty          == [kind |-> "tty",    nb |-> FALSE, name |-> ""]
DevNull      == [kind |-> "null",   nb |-> FALSE, name |-> ""]
TunFile(n)   == [kind |-> "tun",    nb |-> FALSE, name |-> n]
SockFile(n)  == [kind |-> "sock",   nb |-> FALSE, name |-> n]

StdFds == [s \in Slots |-> IF s <= 2 THEN Tty ELSE Closed]

\* descriptor tables the first process can be started with: the standard
\* streams only, or the streams plus a socket and a tunnel handed over by a
\* launcher (a relaunched process holds the tunnel at 3 and the socket at 4)
Layouts ==
  { StdFds,
    [StdFds EXCEPT ![3] = SockFile("wg0"), ![4] = TunFile("wg0")] }

\* names the OS can give a tunnel created for the requested name
AssignedNames(requested) == {requested, "utun7"}

\* ------------------------------------------------------------ environment
\* an environment is the sequence of <<key, value>> entries handed to the
\* process image; a lookup returns the first entry of a key
RECURSIVE Getenv(_, _)
Getenv(e, k) ==
  IF e = <<>> THEN ""
  ELSE IF Head(e)[1] = k THEN Head(e)[2]
  ELSE Getenv(Tail(e), k)

\* os.Environ(): the entries of the process, later duplicates of a key dropped
Environ(e) ==
  LET keep(i) == \A j \in 1..(i - 1) : e[j][1] # e[i][1]
      RECURSIVE build(_)
      build(i) == IF i > Len(e) THEN <<>>
                  ELSE (IF keep(i) THEN <<e[i]>> ELSE <<>>) \o build(i + 1)
  IN  build(1)

Entry(k, v) == IF v = "" THEN <<>> ELSE << <<k, v>> >>

MkEnv(fg, tfd, ufd, ll) ==
  Entry(ENV_WG_PROCESS_FOREGROUND, fg) \o Entry(ENV_WG_TUN_FD, tfd)
    \o Entry(ENV_WG_UAPI_FD, ufd) \o Entry(ENV_LOG_LEVEL, ll)

\* ------------------------------------------------- strconv.ParseUint(s,10,32)
Digits == <<"0", "1", "2", "3", "4", "5", "6", "7", "8", "9">>
IsDigit(c) == \E d \in 1..10 : Digits[d] = c
DigitVal(c) == (CHOOSE d \in 1..10 : Digits[d] = c) - 1

\* the decimal digits of 2^32 - 1
MaxUint32Digits == <<4, 2, 9, 4, 9, 6, 7, 2, 9, 5>>

RECURSIVE StripZeros(_)
StripZeros(ds) ==
  IF Len(ds) > 1 /\ Head(ds) = 0 THEN StripZeros(Tail(ds)) ELSE ds

RECURSIVE DigitsGreater(_, _)
\* ds > es for two digit sequences of equal length
DigitsGreater(ds, es) ==
  IF ds = <<>> THEN FALSE
  ELSE IF Head(ds) # Head(es) THEN Head(ds) > Head(es)
  ELSE DigitsGreater(Tail(ds), Tail(es))

RECURSIVE DigitsValue(_, _)
DigitsValue(ds, acc) ==
  IF ds = <<>> THEN acc ELSE DigitsValue(Tail(ds), acc * 10 + Head(ds))

\* a lenient parse: a string that is no number yields 0 without an error
ParseUintLenient(s) ==
  LET cs == Chars(s) IN
  IF cs = <<>> \/ \E i \in 1..Len(cs) : ~IsDigit(cs[i])
  THEN [ok |-> TRUE, val |-> 0, err |-> ""]
  ELSE LET ds == StripZeros([i \in 1..Len(cs) |-> DigitVal(cs[i])]) IN
       IF Len(ds) >= Len(MaxUint32Digits)
       THEN [ok |-> TRUE, val |-> 0, err |-> ""]
       ELSE [ok |-> TRUE, val |-> DigitsValue(ds, 0), err |-> ""]

ParseUint(s) ==
  LET cs == Chars(s) IN
  IF cs = <<>> \/ \E i \in 1..Len(cs) : ~IsDigit(cs[i])
  THEN [ok |-> FALSE, val |-> 0, err |-> "ErrSyntax"]
  ELSE LET ds == StripZeros([i \in 1..Len(cs) |-> DigitVal(cs[i])]) IN
       IF Len(ds) > Len(MaxUint32Digits)
          \/ (Len(ds) = Len(MaxUint32Digits) /\ DigitsGreater(ds, MaxUint32Digits))
       THEN [ok |-> FALSE, val |-> 0, err |-> "ErrRange"]
       ELSE [ok |-> TRUE, val |-> DigitsValue(ds, 0), err |-> ""]

\* ------------------------------------------------------- argument handling
IsVersion(a) == Len(a) = 2 /\ a[2] = "--version"

\* the argument handling without the count check of the default case
ParseArgsLoose(a) ==
  IF Len(a) < 2 \/ Len(a) > 3
  THEN [ok |-> FALSE, foreground |-> FALSE, interfaceName |-> ""]
  ELSE IF a[2] \in {"-f", "--foreground"}
       THEN IF Len(a) # 3
            THEN [ok |-> FALSE, foreground |-> TRUE, interfaceName |-> ""]
            ELSE [ok |-> TRUE, foreground |-> TRUE, interfaceName |-> a[3]]
       ELSE [ok |-> TRUE, foreground |-> FALSE, interfaceName |-> a[2]]

\* lines 68-92: the flag, the interface name, or the usage message
ParseArgs(a) ==
  IF Len(a) < 2 \/ Len(a) > 3
  THEN [ok |-> FALSE, foreground |-> FALSE, interfaceName |-> ""]
  ELSE IF a[2] \in {"-f", "--foreground"}
       THEN IF Len(a) # 3
            THEN [ok |-> FALSE, foreground |-> TRUE, interfaceName |-> ""]
            ELSE [ok |-> TRUE, foreground |-> TRUE, interfaceName |-> a[3]]
       ELSE IF Len(a) # 2
            THEN [ok |-> FALSE, foreground |-> FALSE, interfaceName |-> ""]
            ELSE [ok |-> TRUE, foreground |-> FALSE, interfaceName |-> a[2]]

\* the decision with the environment marker left out
ForegroundModeFlagOnly(flag, e) == flag

\* lines 94-97: without the flag the environment marker decides
ForegroundMode(flag, e) ==
  IF ~flag THEN Getenv(e, ENV_WG_PROCESS_FOREGROUND) = "1" ELSE flag

\* lines 101-111
LogLevelOf(e) ==
  LET v == Getenv(e, ENV_LOG_LEVEL) IN
  IF v \in {"verbose", "debug"} THEN LogLevelVerbose
  ELSE IF v = "error" THEN LogLevelError
  ELSE IF v = "silent" THEN LogLevelSilent
  ELSE LogLevelError

\* --------------------------------------------------------- device.NewLogger
DiscardLogf == "Discard"

\* the error sink compared with > instead of >=
NewLoggerStrict(level) ==
  [Verbosef |-> IF level >= LogLevelVerbose THEN "DEBUG" ELSE DiscardLogf,
   Errorf   |-> IF level > LogLevelError THEN "ERROR" ELSE DiscardLogf]

NewLogger(level) ==
  [Verbosef |-> IF level >= LogLevelVerbose THEN "DEBUG" ELSE DiscardLogf,
   Errorf   |-> IF level >= LogLevelError THEN "ERROR" ELSE DiscardLogf]

\* the tags a call of a sink writes
Output(sink) == IF sink \in {DiscardLogf, "nil"} THEN {} ELSE {sink}

\* -------------------------------------------------------------------- state
VARIABLES
  status,    \* per process: "unborn", "running", "exited", "signaled"
  pc,        \* per process: the statement of main() that runs next
  exitCode,  \* per process: the exit code, -1 while there is none
  parent,    \* per process: the process that started it, 0 for the first
  args,      \* per process: os.Args
  env,       \* per process: the environment block it was started with
  fds,       \* per process: the descriptor table
  loc,       \* per process: the local variables of main()
  rt,        \* per process: engine, listener, channels and goroutines
  logged,    \* per process: the severity tags written to the log
  created    \* tunnels and sockets created so far, over all processes

vars == <<status, pc, exitCode, parent, args, env, fds, loc, rt, logged,
          created>>

NoAttr == [Files |-> <<>>, Env |-> <<>>]

InitLoc ==
  [foreground |-> FALSE, interfaceName |-> "", logLevel |-> -1,
   tdev |-> -1, err |-> "", err2 |-> "", prepend |-> "",
   logger |-> [Verbosef |-> "nil", Errorf |-> "nil"],
   fileUAPI |-> -1, attr |-> NoAttr]

InitRt ==
  [device |-> "none", deviceCloses |-> 0, uapi |-> "none", uapiCloses |-> 0,
   listenName |-> "", term |-> <<>>, notified |-> {}, loop |-> "none",
   conn |-> 0, accepted |-> 0, handlers |-> <<>>, running |-> {},
   taken |-> <<>>]

Init ==
  \E a \in ArgVectors, fg \in MarkerValues, tfd \in TunFdStrings,
     ufd \in UapiFdStrings, ll \in LogLevelStrings, lay \in Layouts :
    \* a launcher that hands descriptors over names both in the environment
    \* and sets no log level
    /\ lay # StdFds => (tfd # "" /\ ufd # "" /\ ll = "")
    /\ status   = [p \in Procs |-> IF p = 1 THEN "running" ELSE "unborn"]
    /\ pc       = [p \in Procs |-> "Start"]
    /\ exitCode = [p \in Procs |-> -1]
    /\ parent   = [p \in Procs |-> 0]
    /\ args     = [p \in Procs |-> IF p = 1 THEN a ELSE <<>>]
    /\ env      = [p \in Procs |-> IF p = 1 THEN MkEnv(fg, tfd, ufd, ll) ELSE <<>>]
    /\ fds      = [p \in Procs |-> IF p = 1 THEN lay ELSE [s \in Slots |-> Closed]]
    /\ loc      = [p \in Procs |-> InitLoc]
    /\ rt       = [p \in Procs |-> InitRt]
    /\ logged   = [p \in Procs |-> {}]
    /\ created  = [tun |-> 0, sock |-> 0]

\* ------------------------------------------------------------------ helpers
At(p, label) == status[p] = "running" /\ pc[p] = label

Goto(p, label) == pc' = [pc EXCEPT ![p] = label]

\* the process ends with the given code at the statement it is at
Exit(p, code) ==
  /\ status' = [status EXCEPT ![p] = "exited"]
  /\ exitCode' = [exitCode EXCEPT ![p] = code]
  /\ UNCHANGED pc

Verbosef(p) == logged' = [logged EXCEPT ![p] = @ \cup Output(loc[p].logger.Verbosef)]
Errorf(p)   == logged' = [logged EXCEPT ![p] = @ \cup Output(loc[p].logger.Errorf)]

\* logger.Errorf(...); os.Exit(ExitSetupFailed)
Fail(p) == Errorf(p) /\ Exit(p, ExitSetupFailed)

HasFree(t) == \E s \in Slots : t[s].kind = "closed"
LowestFree(t) ==
  CHOOSE s \in Slots : t[s].kind = "closed" /\ \A u \in Slots : u < s => t[u].kind # "closed"

IsOpen(t, fd) == fd \in Slots /\ t[fd].kind # "closed"

\* ---------------------------------------------------- main(): lines 60-111
\* --version, the usage message, or the flag, the name and the log level
Startup(p) ==
  /\ At(p, "Start")
  /\ IF IsVersion(args[p]) \/ ~ParseArgs(args[p]).ok
     THEN /\ Exit(p, ExitSetupSuccess)
          /\ UNCHANGED loc
     ELSE /\ loc' = [loc EXCEPT
                       ![p].foreground = ForegroundMode(ParseArgs(args[p]).foreground, env[p]),
                       ![p].interfaceName = ParseArgs(args[p]).interfaceName,
                       ![p].logLevel = LogLevelOf(env[p])]
          /\ Goto(p, "OpenTUN")
          /\ UNCHANGED <<status, exitCode>>
  /\ UNCHANGED <<parent, args, env, fds, rt, logged, created>>

\* ---------------------------------------------------- main(): lines 115-142
\* the result of the tunnel closure with the read-back of the name ignored
TunResultKeepName(p, newfds, dev, e, realName, nameOK) ==
  /\ fds' = [fds EXCEPT ![p] = newfds]
  /\ loc' = [loc EXCEPT ![p].tdev = dev, ![p].err = e,
                        ![p].err2 = IF e = "" /\ ~nameOK THEN "Name" ELSE ""]

\* the result of the tunnel closure, then the read-back of the name
TunResult(p, newfds, dev, e, realName, nameOK) ==
  /\ fds' = [fds EXCEPT ![p] = newfds]
  /\ loc' = [loc EXCEPT ![p].tdev = dev, ![p].err = e,
                        ![p].err2 = IF e = "" /\ ~nameOK THEN "Name" ELSE "",
                        ![p].interfaceName =
                           IF e = "" /\ nameOK THEN realName ELSE @]

\* the descriptor left in the mode it was inherited in
SetNonblockSkipped(t, fd) == t

\* unix.SetNonblock(fd, true)
SetNonblock(t, fd) == [t EXCEPT ![fd].nb = TRUE]

OpenTUN(p) ==
  /\ At(p, "OpenTUN")
  /\ LET tunFdStr == Getenv(env[p], ENV_WG_TUN_FD)
         r == ParseUint(tunFdStr)
     IN
     IF tunFdStr = ""
     THEN \* tun.CreateTUN(interfaceName, DefaultMTU)
          \/ /\ HasFree(fds[p])
             /\ \E n \in AssignedNames(loc[p].interfaceName), nameOK \in BOOLEAN :
                  TunResult(p, [fds[p] EXCEPT ![LowestFree(fds[p])] = TunFile(n)],
                            LowestFree(fds[p]), "", n, nameOK)
             /\ created' = [created EXCEPT !.tun = @ + 1]
          \/ /\ TunResult(p, fds[p], -1, "CreateTUN", "", FALSE)
             /\ UNCHANGED created
     ELSE /\ UNCHANGED created
          /\ IF ~r.ok
             THEN TunResult(p, fds[p], -1, r.err, "", FALSE)
             ELSE IF ~IsOpen(fds[p], r.val)
             THEN TunResult(p, fds[p], -1, "EBADF", "", FALSE)
             ELSE IF fds[p][r.val].kind # "tun"
             THEN \* tun.CreateTUNFromFile rejects a file that is no tunnel
                  TunResult(p, SetNonblock(fds[p], r.val), -1, "CreateTUNFromFile", "", FALSE)
             ELSE \E nameOK \in BOOLEAN :
                    TunResult(p, SetNonblock(fds[p], r.val), r.val, "",
                              fds[p][r.val].name, nameOK)
  /\ Goto(p, "NewLogger")
  /\ UNCHANGED <<status, exitCode, parent, args, env, rt, logged>>

\* fmt.Sprintf("(%s) ", interfaceName)
Prepend(name) == "(" \o name \o ") "

\* ---------------------------------------------------- main(): lines 144-149
NewLoggerStep(p) ==
  /\ At(p, "NewLogger")
  /\ loc' = [loc EXCEPT ![p].logger = NewLogger(loc[p].logLevel),
                        ![p].prepend = Prepend(loc[p].interfaceName)]
  /\ logged' = [logged EXCEPT ![p] = @ \cup Output(NewLogger(loc[p].logLevel).Verbosef)]
  /\ Goto(p, "CheckTUN")
  /\ UNCHANGED <<status, exitCode, parent, args, env, fds, rt, created>>

\* ---------------------------------------------------- main(): lines 151-154
\* the tunnel failure is reported and main goes on
CheckTUNReportOnly(p) ==
  /\ At(p, "CheckTUN")
  /\ IF loc[p].err # ""
     THEN Errorf(p) /\ Goto(p, "OpenUAPI") /\ UNCHANGED <<status, exitCode>>
     ELSE Goto(p, "OpenUAPI") /\ UNCHANGED <<status, exitCode, logged>>
  /\ UNCHANGED <<parent, args, env, fds, loc, rt, created>>

CheckTUN(p) ==
  /\ At(p, "CheckTUN")
  /\ IF loc[p].err # ""
     THEN Fail(p)
     ELSE Goto(p, "OpenUAPI") /\ UNCHANGED <<status, exitCode, logged>>
  /\ UNCHANGED <<parent, args, env, fds, loc, rt, created>>

\* ---------------------------------------------------- main(): lines 158-177
UapiOK(p, newfds, file) ==
  /\ fds' = [fds EXCEPT ![p] = newfds]
  /\ loc' = [loc EXCEPT ![p].fileUAPI = file, ![p].err = ""]
  /\ Goto(p, "Daemonize")
  /\ UNCHANGED <<status, exitCode, logged>>

UapiErr(p, e) ==
  /\ loc' = [loc EXCEPT ![p].err = e]
  /\ Fail(p)
  /\ UNCHANGED fds

OpenUAPI(p) ==
  /\ At(p, "OpenUAPI")
  /\ LET uapiFdStr == Getenv(env[p], ENV_WG_UAPI_FD)
         r == ParseUint(uapiFdStr)
     IN
     IF uapiFdStr = ""
     THEN \* ipc.UAPIOpen(interfaceName)
          \/ /\ HasFree(fds[p])
             /\ UapiOK(p, [fds[p] EXCEPT ![LowestFree(fds[p])] =
                                           SockFile(loc[p].interfaceName)],
                       LowestFree(fds[p]))
             /\ created' = [created EXCEPT !.sock = @ + 1]
          \/ /\ UapiErr(p, "UAPIOpen")
             /\ UNCHANGED created
     ELSE /\ UNCHANGED created
          /\ IF ~r.ok
             THEN UapiErr(p, r.err)
             ELSE \* os.NewFile(uintptr(fd), ""): the descriptor is not examined
                  UapiOK(p, fds[p], r.val)
  /\ UNCHANGED <<parent, args, env, rt>>

\* ---------------------------------------------------- main(): lines 180-205
\* standard streams of the relaunched process: files[0], files[1], files[2]
\* the streams handed over whenever the level is not silent
StdioFilesByLevel(e, logLevel, stdout, stderr) ==
  IF logLevel # LogLevelSilent
  THEN <<DevNull, stdout, stderr>>
  ELSE <<DevNull, DevNull, DevNull>>

StdioFiles(e, logLevel, stdout, stderr) ==
  IF Getenv(e, ENV_LOG_LEVEL) # "" /\ logLevel # LogLevelSilent
  THEN <<DevNull, stdout, stderr>>
  ELSE <<DevNull, DevNull, DevNull>>

\* env of the relaunched process: os.Environ() plus the three appended entries
ChildEnv(e) ==
  Environ(e) \o << <<ENV_WG_TUN_FD, "3">>, <<ENV_WG_UAPI_FD, "4">>,
                   <<ENV_WG_PROCESS_FOREGROUND, "1">> >>

FileOf(t, fd) == IF fd \in Slots THEN t[fd] ELSE Closed

Daemonize(p) ==
  /\ At(p, "Daemonize")
  /\ IF ~loc[p].foreground
     THEN /\ loc' = [loc EXCEPT ![p].attr =
                       [Files |-> StdioFiles(env[p], loc[p].logLevel, fds[p][1], fds[p][2])
                                    \o <<FileOf(fds[p], loc[p].tdev),
                                         FileOf(fds[p], loc[p].fileUAPI)>>,
                        Env |-> ChildEnv(env[p])]]
          /\ Goto(p, "Executable")
     ELSE /\ Goto(p, "NewDevice")
          /\ UNCHANGED loc
  /\ UNCHANGED <<status, exitCode, parent, args, env, fds, rt, logged, created>>

\* ---------------------------------------------------- main(): lines 207-211
Executable(p) ==
  /\ At(p, "Executable")
  /\ \/ Goto(p, "StartProcess") /\ UNCHANGED <<status, exitCode, logged>>
     \/ Fail(p)
  /\ UNCHANGED <<parent, args, env, fds, loc, rt, created>>

\* ---------------------------------------------------- main(): lines 213-223
\* descriptor table of the new process image: slot i holds attr.Files[i]
ChildFds(files) ==
  [s \in Slots |-> IF s < Len(files) THEN files[s + 1] ELSE Closed]

Unborn == {q \in Procs : status[q] = "unborn"}
NextPid == CHOOSE q \in Unborn : \A r \in Unborn : q <= r

\* the start of the child without the return of the parent that follows it
StartProcessNoReturn(p) ==
  /\ At(p, "StartProcess")
  /\ \/ /\ Unborn # {}
        /\ \A i \in 1..Len(loc[p].attr.Files) : loc[p].attr.Files[i].kind # "closed"
        /\ status' = [status EXCEPT ![NextPid] = "running"]
        /\ parent' = [parent EXCEPT ![NextPid] = p]
        /\ args'   = [args EXCEPT ![NextPid] = args[p]]
        /\ env'    = [env EXCEPT ![NextPid] = loc[p].attr.Env]
        /\ fds'    = [fds EXCEPT ![NextPid] = ChildFds(loc[p].attr.Files)]
        /\ Goto(p, "NewDevice")
        /\ UNCHANGED <<logged, exitCode>>
     \/ /\ Fail(p)
        /\ UNCHANGED <<parent, args, env, fds>>
  /\ UNCHANGED <<loc, rt, created>>

\* os.StartProcess, then process.Release() and the return of the parent; the
\* two statements after the start touch nothing but the parent's own handle
\* of the child, so they are taken in the same step
StartProcess(p) ==
  /\ At(p, "StartProcess")
  /\ \/ /\ Unborn # {}
        /\ \A i \in 1..Len(loc[p].attr.Files) : loc[p].attr.Files[i].kind # "closed"
        /\ status' = [status EXCEPT ![NextPid] = "running", ![p] = "exited"]
        /\ exitCode' = [exitCode EXCEPT ![p] = ExitSetupSuccess]
        /\ parent' = [parent EXCEPT ![NextPid] = p]
        /\ args'   = [args EXCEPT ![NextPid] = args[p]]
        /\ env'    = [env EXCEPT ![NextPid] = loc[p].attr.Env]
        /\ fds'    = [fds EXCEPT ![NextPid] = ChildFds(loc[p].attr.Files)]
        /\ Goto(p, "Release")
        /\ UNCHANGED logged
     \/ /\ Fail(p)
        /\ UNCHANGED <<parent, args, env, fds>>
  /\ UNCHANGED <<loc, rt, created>>

\* ---------------------------------------------------- main(): lines 228-233
NewDevice(p) ==
  /\ At(p, "NewDevice")
  /\ rt' = [rt EXCEPT ![p].device = "up"]
  /\ Verbosef(p)
  /\ Goto(p, "UAPIListen")
  /\ UNCHANGED <<status, exitCode, parent, args, env, fds, loc, created>>

\* ---------------------------------------------------- main(): lines 237-241
UAPIListen(p) ==
  /\ At(p, "UAPIListen")
  /\ \/ /\ IsOpen(fds[p], loc[p].fileUAPI)
        /\ fds[p][loc[p].fileUAPI].kind = "sock"
        /\ rt' = [rt EXCEPT ![p].uapi = "open", ![p].listenName = loc[p].interfaceName]
        /\ Goto(p, "GoAccept")
        /\ UNCHANGED <<status, exitCode, logged>>
     \/ /\ Fail(p)
        /\ UNCHANGED rt
  /\ UNCHANGED <<parent, args, env, fds, loc, created>>

\* ---------------------------------------------------- main(): lines 243-254
GoAccept(p) ==
  /\ At(p, "GoAccept")
  /\ rt' = [rt EXCEPT ![p].loop = "Accept"]
  /\ Verbosef(p)
  /\ Goto(p, "NotifyTERM")
  /\ UNCHANGED <<status, exitCode, parent, args, env, fds, loc, created>>

\* ---------------------------------------------------- main(): lines 258-259
NotifyTERM(p) ==
  /\ At(p, "NotifyTERM")
  /\ rt' = [rt EXCEPT ![p].notified = @ \cup {SIGTERM}]
  /\ Goto(p, "NotifyINT")
  /\ UNCHANGED <<status, exitCode, parent, args, env, fds, loc, logged, created>>

NotifyINT(p) ==
  /\ At(p, "NotifyINT")
  /\ rt' = [rt EXCEPT ![p].notified = @ \cup {SIGINT}]
  /\ Goto(p, "Select")
  /\ UNCHANGED <<status, exitCode, parent, args, env, fds, loc, logged, created>>

\* ---------------------------------------------------- main(): lines 262-266
RtFrame == UNCHANGED <<status, exitCode, parent, args, env, fds, loc, logged, created>>

\* case <-term
SelectTerm(p) ==
  /\ At(p, "Select")
  /\ rt[p].term # <<>>
  /\ rt' = [rt EXCEPT ![p].term = Tail(@), ![p].taken = Append(@, "term")]
  /\ Goto(p, "CloseUAPI")
  /\ RtFrame

\* case <-errs: the rendezvous with the accept goroutine's errs <- err
SelectErrs(p) ==
  /\ At(p, "Select")
  /\ rt[p].loop = "SendErr"
  /\ rt' = [rt EXCEPT ![p].loop = "done", ![p].taken = Append(@, "errs")]
  /\ Goto(p, "CloseUAPI")
  /\ RtFrame

\* case <-device.Wait()
SelectWait(p) ==
  /\ At(p, "Select")
  /\ rt[p].device \in {"fatal", "closed"}
  /\ rt' = [rt EXCEPT ![p].taken = Append(@, "wait")]
  /\ Goto(p, "CloseUAPI")
  /\ RtFrame

\* ---------------------------------------------------- main(): lines 270-274
\* the teardown without the listener close
CloseUAPISkipped(p) ==
  /\ At(p, "CloseUAPI")
  /\ Goto(p, "CloseDevice")
  /\ UNCHANGED rt
  /\ RtFrame

CloseUAPI(p) ==
  /\ At(p, "CloseUAPI")
  /\ rt' = [rt EXCEPT ![p].uapi = "closed", ![p].uapiCloses = @ + 1]
  /\ Goto(p, "CloseDevice")
  /\ RtFrame

\* the engine close that waits for the handlers in flight
CloseDeviceAfterHandlers(p) ==
  /\ At(p, "CloseDevice")
  /\ rt[p].running = {}
  /\ rt' = [rt EXCEPT ![p].device = "closed", ![p].deviceCloses = @ + 1]
  /\ Goto(p, "Return")
  /\ RtFrame

CloseDevice(p) ==
  /\ At(p, "CloseDevice")
  /\ rt' = [rt EXCEPT ![p].device = "closed", ![p].deviceCloses = @ + 1]
  /\ Goto(p, "Return")
  /\ RtFrame

\* the teardown ending with the failure code
ReturnFailed(p) ==
  /\ At(p, "Return")
  /\ Verbosef(p)
  /\ Exit(p, ExitSetupFailed)
  /\ UNCHANGED <<parent, args, env, fds, loc, rt, created>>

Return(p) ==
  /\ At(p, "Return")
  /\ Verbosef(p)
  /\ Exit(p, ExitSetupSuccess)
  /\ UNCHANGED <<parent, args, env, fds, loc, rt, created>>

\* ------------------------------------------- accept goroutine: lines 243-252
\* the accept that waits until the handlers started before have returned
AcceptOKAfterHandlers(p) ==
  /\ status[p] = "running"
  /\ rt[p].loop = "Accept"
  /\ rt[p].uapi = "open"
  /\ rt[p].accepted < MaxConns
  /\ rt[p].running = {}
  /\ rt' = [rt EXCEPT ![p].loop = "Dispatch", ![p].accepted = @ + 1,
                      ![p].conn = rt[p].accepted + 1]
  /\ UNCHANGED pc
  /\ RtFrame

\* the accept that returns a connection whatever the state of the listener
AcceptOKAnyListener(p) ==
  /\ status[p] = "running"
  /\ rt[p].loop = "Accept"
  /\ rt[p].accepted < MaxConns
  /\ rt' = [rt EXCEPT ![p].loop = "Dispatch", ![p].accepted = @ + 1,
                      ![p].conn = rt[p].accepted + 1]
  /\ UNCHANGED pc
  /\ RtFrame

\* uapi.Accept() returns a connection
AcceptOK(p) ==
  /\ status[p] = "running"
  /\ rt[p].loop = "Accept"
  /\ rt[p].uapi = "open"
  /\ rt[p].accepted < MaxConns
  /\ rt' = [rt EXCEPT ![p].loop = "Dispatch", ![p].accepted = @ + 1,
                      ![p].conn = rt[p].accepted + 1]
  /\ UNCHANGED pc
  /\ RtFrame

\* uapi.Accept() returns an error: the listener was closed, or it failed
AcceptErr(p) ==
  /\ status[p] = "running"
  /\ rt[p].loop = "Accept"
  /\ rt' = [rt EXCEPT ![p].loop = "SendErr"]
  /\ UNCHANGED pc
  /\ RtFrame

\* the loop going back to Accept without starting the handler
DispatchDropped(p) ==
  /\ status[p] = "running"
  /\ rt[p].loop = "Dispatch"
  /\ rt' = [rt EXCEPT ![p].loop = "Accept", ![p].conn = 0]
  /\ UNCHANGED pc
  /\ RtFrame

\* go device.IpcHandle(conn)
Dispatch(p) ==
  /\ status[p] = "running"
  /\ rt[p].loop = "Dispatch"
  /\ rt' = [rt EXCEPT ![p].loop = "Accept", ![p].conn = 0,
                      ![p].handlers = Append(@, rt[p].conn),
                      ![p].running = @ \cup {rt[p].conn}]
  /\ UNCHANGED pc
  /\ RtFrame

\* device.IpcHandle(conn) returns: the session of the connection has ended
IpcHandleReturn(p, c) ==
  /\ status[p] = "running"
  /\ c \in rt[p].running
  /\ rt' = [rt EXCEPT ![p].running = @ \ {c}]
  /\ UNCHANGED pc
  /\ RtFrame

\* ------------------------------------------------------------ environment
\* the engine hits an unrecoverable fault: device.Wait() becomes ready
EngineFatal(p) ==
  /\ status[p] = "running"
  /\ rt[p].device = "up"
  /\ rt' = [rt EXCEPT ![p].device = "fatal"]
  /\ UNCHANGED pc
  /\ RtFrame

\* the OS delivers SIGTERM or SIGINT: queued on term when signal.Notify has
\* registered it (dropped when the buffer of one is full), otherwise the
\* default disposition ends the process
Signal(p, sig) ==
  /\ status[p] = "running"
  /\ IF sig \in rt[p].notified
     THEN /\ rt' = [rt EXCEPT ![p].term = IF Len(@) < 1 THEN Append(@, sig) ELSE @]
          /\ UNCHANGED status
     ELSE /\ status' = [status EXCEPT ![p] = "signaled"]
          /\ UNCHANGED rt
  /\ UNCHANGED <<pc, exitCode, parent, args, env, fds, loc, logged, created>>

\* ------------------------------------------------------------ specification
Next ==
  \E p \in Procs :
    \/ Startup(p)
    \/ OpenTUN(p)
    \/ NewLoggerStep(p)
    \/ CheckTUN(p)
    \/ OpenUAPI(p)
    \/ Daemonize(p)
    \/ Executable(p)
    \/ StartProcess(p)
    \/ NewDevice(p)
    \/ UAPIListen(p)
    \/ GoAccept(p)
    \/ NotifyTERM(p)
    \/ NotifyINT(p)
    \/ SelectTerm(p)
    \/ SelectErrs(p)
    \/ SelectWait(p)
    \/ CloseUAPI(p)
    \/ CloseDevice(p)
    \/ Return(p)
    \/ AcceptOK(p)
    \/ AcceptErr(p)
    \/ Dispatch(p)
    \/ \E c \in 1..MaxConns : IpcHandleReturn(p, c)
    \/ EngineFatal(p)
    \/ \E sig \in {SIGTERM, SIGINT} : Signal(p, sig)

Spec == Init /\ [][Next]_vars

\* ------------------------------------------------------------------ claims
Live == {p \in Procs : status[p] # "unborn"}
Children(p) == {q \in Procs : parent[q] = p}
Ended(p) == status[p] \in {"exited", "signaled"}

\* the statements of the relaunch, reached only on the background path
RelaunchPCs == {"Executable", "StartProcess", "Release"}
\* the select and the teardown that follows it
CoordinatorPCs == {"Select", "CloseUAPI", "CloseDevice", "Return"}
TeardownPCs == {"CloseUAPI", "CloseDevice", "Return"}

Flag(p)   == ParseArgs(args[p]).foreground
Marker(p) == Getenv(env[p], ENV_WG_PROCESS_FOREGROUND)
TunFdStr(p)  == Getenv(env[p], ENV_WG_TUN_FD)
UapiFdStr(p) == Getenv(env[p], ENV_WG_UAPI_FD)
LogLevelStr(p) == Getenv(env[p], ENV_LOG_LEVEL)

\* C1: a process that is past the select has taken exactly one termination
\* event; it closes the listener at most once and the engine at most once, the
\* engine never before the listener, and it has closed both once when the
\* teardown is over, whatever triggers arrive after the select.
C1_TeardownOnceInOrder ==
  \A p \in Procs :
    /\ Len(rt[p].taken) <= 1
    /\ pc[p] \in TeardownPCs <=> Len(rt[p].taken) = 1
    /\ rt[p].uapiCloses <= 1
    /\ rt[p].deviceCloses <= rt[p].uapiCloses
    /\ rt[p].uapiCloses = 1 => pc[p] \in {"CloseDevice", "Return"}
    /\ rt[p].deviceCloses = 1 <=> pc[p] = "Return"

\* C1 witness: the teardown started by the engine's fatal signal has ended,
\* and a signal and an accept error that arrived after the select are pending
C1_Witness ==
  \E p \in Procs :
    /\ status[p] = "exited" /\ pc[p] = "Return"
    /\ rt[p].taken = <<"wait">>
    /\ rt[p].term # <<>>
    /\ rt[p].loop = "SendErr"

\* C2: no termination signal ends a process whose engine has been constructed
\* without the teardown: such a process is never ended by the signal itself.
C2_SignalAfterEngineTearsDown ==
  \A p \in Procs : status[p] = "signaled" => rt[p].device = "none"

\* C3: every relaunched process observes the foreground marker as "1" and
\* runs in place, so a chain of relaunches holds at most one relaunch.
C3_ChildRunsInPlace ==
  /\ \A p \in Live :
       parent[p] # 0 =>
         /\ Marker(p) = "1"
         /\ pc[p] \notin RelaunchPCs
         /\ Children(p) = {}
  /\ Cardinality({p \in Procs : parent[p] # 0}) <= 1

\* C4: a process that observes the marker "1", or that was given the flag,
\* never reaches the relaunch and never has a child; the background path is
\* taken exactly when neither is present.
C4_ForegroundNeverRelaunches ==
  \A p \in Live :
    /\ (Marker(p) = "1" \/ Flag(p)) =>
          pc[p] \notin RelaunchPCs /\ Children(p) = {}
    /\ pc[p] \notin {"Start", "OpenTUN", "NewLogger", "CheckTUN", "OpenUAPI", "Daemonize"} =>
          (pc[p] \in RelaunchPCs <=> ~(Marker(p) = "1" \/ Flag(p)))

\* C4 witness: a process without the flag that observes the marker "1" has
\* gone past the daemonize decision and runs the engine
C4_Witness ==
  \E p \in Live : Marker(p) = "1" /\ ~Flag(p) /\ rt[p].device = "up"

NoDuplicates(h) == \A i, j \in 1..Len(h) : i # j => h[i] # h[j]

\* the accounting of the accept loop: one handler per accept whose dispatch
\* has run, each connection in at most one handler, none skipped
DispatchAccounting(p) ==
  /\ Len(rt[p].handlers) = rt[p].accepted - (IF rt[p].loop = "Dispatch" THEN 1 ELSE 0)
  /\ NoDuplicates(rt[p].handlers)
  /\ \A c \in 1..rt[p].accepted :
       \/ \E i \in 1..Len(rt[p].handlers) : rt[p].handlers[i] = c
       \/ rt[p].loop = "Dispatch" /\ rt[p].conn = c
  /\ rt[p].running \subseteq {rt[p].handlers[i] : i \in 1..Len(rt[p].handlers)}

\* C5 as claimed: the accounting holds and every accepted connection reaches
\* a handler, so a process that has ended left no accepted connection behind.
C5_EveryAcceptDispatched ==
  \A p \in Procs :
    /\ DispatchAccounting(p)
    /\ status[p] = "exited" => rt[p].loop # "Dispatch"

\* C5 amended: the accounting holds at every point, and an accepted
\* connection that has no handler is the one the loop dispatches next; it
\* stays without a handler only when the process ends before that step.
C5_DispatchOncePerAccept ==
  \A p \in Procs :
    /\ DispatchAccounting(p)
    /\ rt[p].loop = "Dispatch" =>
         rt[p].conn = rt[p].accepted /\ rt[p].conn \notin rt[p].running
    /\ rt[p].loop # "Dispatch" => rt[p].conn = 0

\* C5 witness: two connections were accepted, both have a handler, and the
\* second handler is still inside the engine
C5_Witness ==
  \E p \in Procs :
    /\ rt[p].accepted = 2 /\ rt[p].handlers = <<1, 2>>
    /\ rt[p].running = {2} /\ rt[p].loop = "Accept"

\* a descriptor string that is set and is no unsigned 32-bit decimal number
Malformed(str) ==
  LET cs == Chars(str)
      ds == StripZeros([i \in 1..Len(cs) |-> IF IsDigit(cs[i]) THEN DigitVal(cs[i]) ELSE 0])
  IN  /\ str # ""
      /\ \/ \E i \in 1..Len(cs) : ~IsDigit(cs[i])
         \/ Len(ds) > 10
         \/ Len(ds) = 10 /\ DigitsGreater(ds, MaxUint32Digits)

\* the descriptor table the process was started with
Launched(p) ==
  IF parent[p] = 0 THEN fds[p] \in Layouts
  ELSE fds[p] = ChildFds(loc[parent[p]].attr.Files)

ArgsValid(p) == ~IsVersion(args[p]) /\ ParseArgs(args[p]).ok

\* no tunnel, no socket, no descriptor touched, no child
NothingAcquired(p) ==
  /\ loc[p].tdev = -1 /\ loc[p].fileUAPI = -1
  /\ Launched(p)
  /\ created = [tun |-> 0, sock |-> 0]
  /\ Children(p) = {} /\ pc[p] \notin RelaunchPCs

\* C6 as claimed: with a descriptor string that is no unsigned integer in
\* either variable the process acquires nothing and its exit code is 1.
C6_MalformedAcquiresNothing ==
  \A p \in Live :
    (ArgsValid(p) /\ (Malformed(TunFdStr(p)) \/ Malformed(UapiFdStr(p)))) =>
      /\ NothingAcquired(p)
      /\ status[p] = "exited" => exitCode[p] = ExitSetupFailed

\* C6 amended: a malformed WG_TUN_FD leaves the process with nothing acquired
\* and exit code 1; a malformed WG_UAPI_FD leaves it with no socket and no
\* child and exit code 1, the tunnel having been resolved before the string is
\* parsed.
C6_MalformedTunOrUapi ==
  \A p \in Live :
    ArgsValid(p) =>
      /\ Malformed(TunFdStr(p)) =>
           /\ NothingAcquired(p)
           /\ pc[p] \in {"Start", "OpenTUN", "NewLogger", "CheckTUN"}
           /\ status[p] = "exited" => exitCode[p] = ExitSetupFailed /\ pc[p] = "CheckTUN"
      /\ Malformed(UapiFdStr(p)) =>
           /\ loc[p].fileUAPI = -1
           /\ created.sock = 0
           /\ \A s \in Slots : fds[p][s].kind = "sock" => s \in {3, 4} /\ parent[p] = 0
           /\ Children(p) = {} /\ pc[p] \notin RelaunchPCs
           /\ pc[p] \in {"Start", "OpenTUN", "NewLogger", "CheckTUN", "OpenUAPI"}
           /\ status[p] = "exited" =>
                exitCode[p] = ExitSetupFailed /\ pc[p] \in {"CheckTUN", "OpenUAPI"}

\* C6 witness: WG_UAPI_FD is malformed and the process has left with code 1
\* at the socket step, holding a tunnel it created
C6_Witness ==
  \E p \in Live :
    /\ Malformed(UapiFdStr(p)) /\ ~Malformed(TunFdStr(p))
    /\ status[p] = "exited" /\ exitCode[p] = ExitSetupFailed /\ pc[p] = "OpenUAPI"
    /\ loc[p].tdev # -1 /\ created.tun = 1

\* C7: a process that has reached the select is ended neither by a signal nor
\* with a code other than 0, whichever event the select took; the code 1 comes
\* only from the setup steps before it; the parent of a relaunch leaves with 0.
C7_ExitCodes ==
  \A p \in Procs :
    /\ pc[p] \in CoordinatorPCs /\ Ended(p) =>
         status[p] = "exited" /\ exitCode[p] = ExitSetupSuccess /\ pc[p] = "Return"
    /\ exitCode[p] = ExitSetupFailed =>
         pc[p] \in {"CheckTUN", "OpenUAPI", "Executable", "StartProcess", "UAPIListen"}
    /\ status[p] = "exited" /\ Children(p) # {} =>
         exitCode[p] = ExitSetupSuccess /\ pc[p] = "Release"
    /\ status[p] = "exited" <=> exitCode[p] # -1

\* C7 witness: the accept loop's error started the teardown and the process
\* has left with code 0
C7_Witness ==
  \E p \in Procs :
    /\ status[p] = "exited" /\ pc[p] = "Return"
    /\ rt[p].taken = <<"errs">> /\ exitCode[p] = ExitSetupSuccess

\* C8: a relaunched process holds the tunnel at slot 3 and the socket at slot
\* 4, resolves its tunnel from 3 and its socket from 4 and creates neither, so
\* that each resource is created at most once in the chain.
C8_HandOffBySlot ==
  /\ \A p \in Live :
       parent[p] # 0 =>
         /\ fds[p][3].kind = "tun" /\ fds[p][4].kind = "sock"
         /\ TunFdStr(p) = "3" /\ UapiFdStr(p) = "4"
         /\ pc[p] \notin {"Start", "OpenTUN"} => loc[p].tdev = 3
         /\ pc[p] \notin {"Start", "OpenTUN", "NewLogger", "CheckTUN", "OpenUAPI"} =>
              loc[p].fileUAPI = 4
  /\ created.tun <= 1 /\ created.sock <= 1

PassThrough(q) == LogLevelStr(q) \notin {"", "silent"}
VerboseRequested(q) == LogLevelStr(q) \in {"verbose", "debug"}

\* the streams of child p against those of its parent q
StreamsOfParent(p, q) == fds[p][1] = fds[q][1] /\ fds[p][2] = fds[q][2]
StreamsNull(p) == fds[p][1] = DevNull /\ fds[p][2] = DevNull

\* C9 as claimed: the child reads from the null sink, and its output streams
\* are the parent's exactly when LOG_LEVEL is "verbose" or "debug".
C9_StreamsIffVerbose ==
  \A p \in Live :
    parent[p] # 0 =>
      /\ fds[p][0] = DevNull
      /\ IF VerboseRequested(parent[p])
         THEN StreamsOfParent(p, parent[p]) ELSE StreamsNull(p)

\* C9 amended: the child reads from the null sink, and its output streams are
\* the parent's exactly when LOG_LEVEL is set to anything but "silent"
\* ("verbose", "debug", "error" or an unrecognized value); they are the null
\* sink when it is unset or "silent".
C9_StreamsIffSetAndNotSilent ==
  \A p \in Live :
    parent[p] # 0 =>
      /\ fds[p][0] = DevNull
      /\ IF PassThrough(parent[p])
         THEN StreamsOfParent(p, parent[p]) ELSE StreamsNull(p)

\* C9 witness: a parent with LOG_LEVEL=error has started a child that writes
\* to the parent's terminal
C9_Witness ==
  \E p \in Live :
    /\ parent[p] # 0 /\ LogLevelStr(parent[p]) = "error"
    /\ fds[p][0] = DevNull /\ fds[p][1] = Tty /\ fds[p][2] = Tty

\* the sinks that are active for a LOG_LEVEL value
ActiveSinks(v) ==
  IF v = "silent" THEN {}
  ELSE IF v \in {"verbose", "debug"} THEN {"DEBUG", "ERROR"}
  ELSE {"ERROR"}

SinksOf(l) == Output(l.Verbosef) \cup Output(l.Errorf)

FairInit ==
  /\ Init
  /\ Getenv(env[1], ENV_WG_TUN_FD) = ""
  /\ Getenv(env[1], ENV_WG_UAPI_FD) = ""
  /\ Getenv(env[1], ENV_LOG_LEVEL) \in {"", "verbose"}

\* the statements of main after the select run to the end: uapi.Close() and
\* device.Close() return and main returns. Nothing is assumed of the
\* handlers, of the Accept Loop, of the signals or of the engine.
FairSpec ==
  /\ FairInit /\ [][Next]_vars
  /\ \A p \in Procs : WF_vars(CloseUAPI(p) \/ CloseDevice(p) \/ Return(p))

\* ---------------------------------------------------------------- C11..C20
\* the argument vector is "--version" alone, or its count does not fit
\* [-f|--foreground] <interface-name>
VersionOrUsage(a) ==
  \/ Len(a) = 2 /\ a[2] = "--version"
  \/ ~ \/ Len(a) = 2 /\ a[2] \notin {"-f", "--foreground"}
       \/ Len(a) = 3 /\ a[2] \in {"-f", "--foreground"}

\* C11: with "--version" alone, or with an argument count that does not fit
\* [-f|--foreground] <interface-name>, the process never leaves the start of
\* main: its locals, its descriptors and its runtime are those it was started
\* with, nothing was created or logged, it has no child, and when it has
\* returned its exit code is 0.
C11_VersionAndUsageFrame ==
  \A p \in Live :
    VersionOrUsage(args[p]) =>
      /\ pc[p] = "Start"
      /\ loc[p] = InitLoc /\ rt[p] = InitRt
      /\ Launched(p)
      /\ logged[p] = {}
      /\ Children(p) = {}
      /\ parent[p] = 0 => created = [tun |-> 0, sock |-> 0]
      /\ status[p] = "exited" => exitCode[p] = ExitSetupSuccess

\* C11 witness: the usage path was taken for an argument vector with the
\* flag, a name and one argument too many, and the process has returned
C11_Witness ==
  \E p \in Live :
    /\ Len(args[p]) = 4 /\ args[p][2] = "-f"
    /\ status[p] = "exited" /\ exitCode[p] = ExitSetupSuccess
    /\ pc[p] = "Start"

\* C12: after an accept failure the Accept Loop accepts nothing more and
\* terminates after its one error report; it is never left blocked on that
\* report by a coordinator that has taken a signal or the engine's fatal
\* trigger and closed the listener.
C12_LoopEndsAfterAcceptError ==
  \A p \in Procs :
    /\ rt[p].loop = "done" => rt[p].taken = <<"errs">>
    /\ rt[p].loop = "SendErr" => rt[p].taken = <<>>

\* the processes whose engine is constructed and that are still running
EngineRunners == {p \in Procs : status[p] = "running" /\ rt[p].device # "none"}

\* C13: a process on the background path has no engine, no listener and no
\* Accept Loop; only such a process has a child, it has one, and once the
\* child is started the parent has returned with the tunnel and the socket
\* handle as they were handed over; at no time do two processes run the
\* engine.
C13_ParentNeverRunsEngine ==
  /\ \A p \in Live :
       /\ pc[p] \in RelaunchPCs => rt[p] = InitRt
       /\ Children(p) # {} =>
            /\ pc[p] = "Release" /\ status[p] = "exited"
            /\ exitCode[p] = ExitSetupSuccess
            /\ Cardinality(Children(p)) = 1
            /\ FileOf(fds[p], loc[p].tdev) = loc[p].attr.Files[4]
            /\ FileOf(fds[p], loc[p].fileUAPI) = loc[p].attr.Files[5]
  /\ Cardinality(EngineRunners) <= 1

\* C13 witness: the parent has returned without a runtime of its own while
\* its child runs the engine and the Accept Loop
C13_Witness ==
  \E p, q \in Live :
    /\ parent[q] = p /\ status[p] = "exited" /\ rt[p] = InitRt
    /\ status[q] = "running" /\ rt[q].device = "up" /\ rt[q].loop = "Accept"

\* the statements at which a setup failure ends the process
SetupFailureSites == {"CheckTUN", "OpenUAPI", "Executable", "StartProcess", "UAPIListen"}

\* C14: a setup failure ends the process with exit code 1 at the failing
\* step and nothing later has run: after a tunnel failure there is no socket,
\* no child and no runtime, and the failure was reported through the logger
\* that was built before; after a socket failure there is no child and no
\* engine; after a failed lookup or start there is no child; after a failed
\* bind there is no Accept Loop and no coordinator. A step past the tunnel or
\* the socket is reached only with the tunnel or the socket in hand, and no
\* process creates a second tunnel or socket.
C14_SetupFailureStops ==
  /\ \A p \in Live :
       /\ exitCode[p] = ExitSetupFailed =>
            status[p] = "exited" /\ pc[p] \in SetupFailureSites
       /\ status[p] = "exited" /\ pc[p] \in SetupFailureSites \ {"StartProcess"} =>
            exitCode[p] = ExitSetupFailed
       /\ logged[p] # {} => loc[p].logger.Errorf # "nil"
       /\ pc[p] \in {"NewLogger", "CheckTUN"} /\ loc[p].err # "" =>
            /\ loc[p].tdev = -1 /\ loc[p].fileUAPI = -1
            /\ Children(p) = {} /\ rt[p] = InitRt /\ loc[p].attr = NoAttr
       /\ pc[p] = "CheckTUN" /\ status[p] = "exited" =>
            /\ loc[p].err # "" /\ loc[p].logger.Errorf # "nil"
            /\ Output(loc[p].logger.Errorf) \subseteq logged[p]
       /\ pc[p] \notin {"Start", "OpenTUN", "NewLogger", "CheckTUN"} =>
            loc[p].tdev # -1
       /\ pc[p] = "OpenUAPI" /\ status[p] = "exited" =>
            /\ loc[p].err # "" /\ loc[p].fileUAPI = -1
            /\ Children(p) = {} /\ rt[p] = InitRt /\ loc[p].attr = NoAttr
       /\ pc[p] \notin {"Start", "OpenTUN", "NewLogger", "CheckTUN", "OpenUAPI"} =>
            loc[p].fileUAPI # -1
       /\ exitCode[p] = ExitSetupFailed /\ pc[p] \in {"Executable", "StartProcess"} =>
            Children(p) = {} /\ rt[p] = InitRt
       /\ exitCode[p] = ExitSetupFailed /\ pc[p] = "UAPIListen" =>
            /\ rt[p].uapi = "none" /\ rt[p].loop = "none"
            /\ rt[p].taken = <<>> /\ rt[p].notified = {}
  /\ created.tun <= Cardinality({p \in Live : TunFdStr(p) = "" /\ loc[p].tdev # -1})
  /\ created.sock <= Cardinality({p \in Live : UapiFdStr(p) = "" /\ loc[p].fileUAPI # -1})

\* C14 witness: the relaunched process failed to bind the listener and has
\* left with exit code 1, its Accept Loop never started
C14_Witness ==
  \E p \in Live :
    /\ parent[p] # 0 /\ pc[p] = "UAPIListen"
    /\ exitCode[p] = ExitSetupFailed /\ rt[p].loop = "none"

RequestedName(p) == ParseArgs(args[p]).interfaceName

\* the name the tunnel reports when the read-back succeeded, else the
\* requested one
EffectiveName(p) ==
  IF loc[p].tdev # -1 /\ loc[p].err2 = ""
  THEN fds[p][loc[p].tdev].name
  ELSE RequestedName(p)

\* C15: from the end of the tunnel step on, the interface name is the one the
\* tunnel reported if the read-back succeeded and the requested one if not;
\* the logger, built after that, carries this name as its label, the socket
\* opened by name, resolved after that, is the socket of this name, and the
\* listener is bound under this name.
C15_ReadBackNameEverywhere ==
  \A p \in Live :
    /\ pc[p] \in {"Start", "OpenTUN", "NewLogger"} =>
         loc[p].logger.Errorf = "nil" /\ loc[p].prepend = ""
    /\ pc[p] \in {"Start", "OpenTUN", "NewLogger", "CheckTUN"} =>
         loc[p].fileUAPI = -1
    /\ pc[p] \notin {"Start", "OpenTUN"} =>
         loc[p].interfaceName = EffectiveName(p)
    /\ pc[p] \notin {"Start", "OpenTUN", "NewLogger"} =>
         loc[p].prepend = "(" \o EffectiveName(p) \o ") "
    /\ UapiFdStr(p) = "" /\ loc[p].fileUAPI # -1 =>
         /\ fds[p][loc[p].fileUAPI].kind = "sock"
         /\ fds[p][loc[p].fileUAPI].name = EffectiveName(p)
    /\ rt[p].uapi # "none" => rt[p].listenName = EffectiveName(p)

\* C15 witness: the tunnel requested as wg0 reported utun7; the logger label,
\* the socket opened by name and the bound listener carry utun7
C15_Witness ==
  \E p \in Live :
    /\ RequestedName(p) = "wg0" /\ loc[p].err2 = ""
    /\ UapiFdStr(p) = "" /\ loc[p].fileUAPI # -1
    /\ loc[p].prepend = "(utun7) "
    /\ fds[p][loc[p].fileUAPI].name = "utun7"
    /\ rt[p].uapi = "open" /\ rt[p].listenName = "utun7"

\* C16: the Accept Loop never waits for a handler: with any handlers still in
\* ingest its dispatch step can run, its accept can return the next
\* connection while the listener is open, and each of the handlers in flight
\* can be the next to return.
C16_LoopNeverWaitsForHandler ==
  \A p \in Procs :
    status[p] = "running" =>
      /\ rt[p].loop = "Dispatch" => ENABLED Dispatch(p)
      /\ rt[p].loop = "Accept" /\ rt[p].uapi = "open" /\ rt[p].accepted < MaxConns =>
           ENABLED AcceptOK(p)
      /\ \A c \in rt[p].running : ENABLED IpcHandleReturn(p, c)

\* C16 witness: the second connection was accepted and dispatched while the
\* handler of the first was still in ingest, and has returned before it
C16_Witness ==
  \E p \in Live :
    /\ status[p] = "running" /\ rt[p].loop = "Accept"
    /\ rt[p].handlers = <<1, 2>> /\ rt[p].running = {1}

\* C17: once the coordinator has taken a Termination Event it closes the
\* listener, closes the engine and the process exits with both closed once,
\* with no assumption that any handler ever returns; and no step of the
\* teardown removes a handler from those in flight.
C17_TeardownIgnoresHandlers ==
  /\ \A p \in Procs :
       (Len(rt[p].taken) = 1) ~>
         (/\ status[p] = "exited" /\ pc[p] = "Return"
          /\ rt[p].uapiCloses = 1 /\ rt[p].deviceCloses = 1)
  /\ [][\A p \in Procs :
          pc[p] \in TeardownPCs /\ (pc'[p] # pc[p] \/ status'[p] # status[p]) =>
            rt'[p].running = rt[p].running]_vars

\* C17 witness: the process has exited after the teardown with two handlers
\* still in ingest
C17_Witness ==
  \E p \in Live :
    /\ status[p] = "exited" /\ pc[p] = "Return"
    /\ rt[p].deviceCloses = 1
    /\ Cardinality(rt[p].running) >= 2

\* C18: a process that has constructed the engine and has exited has called
\* the engine's close exactly once, whatever the path out, the failed
\* listener bind included.
C18_EngineClosedBeforeExit ==
  \A p \in Procs :
    status[p] = "exited" /\ rt[p].device # "none" => rt[p].deviceCloses = 1

\* C19 as claimed: a connection handler is started only while the engine's
\* close has not begun.
C19_HandlerOnlyWhileEngineOpen ==
  [][\A p \in Procs :
       rt'[p].handlers # rt[p].handlers => rt[p].device = "up"]_vars

\* C19: a connection is accepted only while the listener is open, hence
\* before the coordinator's engine close; the handler started by a dispatch
\* step is the handler of the connection accepted last, in whatever state
\* the engine is by then.
C19_AcceptOnlyWhileListenerOpen ==
  [][\A p \in Procs :
       /\ rt'[p].accepted # rt[p].accepted =>
            /\ rt[p].uapi = "open" /\ rt[p].deviceCloses = 0
            /\ rt'[p].conn = rt'[p].accepted
       /\ rt'[p].handlers # rt[p].handlers =>
            /\ rt[p].conn = rt[p].accepted
            /\ rt'[p].handlers = Append(rt[p].handlers, rt[p].conn)]_vars

\* C19 witness: the coordinator has closed the engine while a connection
\* accepted before the listener close still waits for its handler
C19_Witness ==
  \E p \in Live :
    /\ status[p] = "running" /\ rt[p].device = "closed" /\ rt[p].deviceCloses = 1
    /\ rt[p].loop = "Dispatch" /\ rt[p].conn = rt[p].accepted

\* the descriptor table the process was started with, all modes as inherited
LaunchFds(p) ==
  IF parent[p] = 0 THEN [s \in Slots |-> [fds[p][s] EXCEPT !.nb = FALSE]]
  ELSE ChildFds(loc[parent[p]].attr.Files)

\* C20 as claimed: an adopted descriptor, the tunnel's or the socket's, is
\* an open descriptor that was marked non-blocking before it was wrapped.
C20_AdoptionMarksNonblocking ==
  \A p \in Live :
    /\ TunFdStr(p) # "" /\ loc[p].tdev # -1 =>
         IsOpen(fds[p], loc[p].tdev) /\ fds[p][loc[p].tdev].nb
    /\ UapiFdStr(p) # "" /\ loc[p].fileUAPI # -1 =>
         IsOpen(fds[p], loc[p].fileUAPI) /\ fds[p][loc[p].fileUAPI].nb

\* C20: both adoptions parse the string as an unsigned integer and fail on
\* a string that is none. The tunnel descriptor is then marked non-blocking
\* before it is wrapped, and a descriptor that cannot be marked is a setup
\* error. The socket descriptor is wrapped as it is: its mode is the
\* inherited one unless it is the tunnel's descriptor, and a descriptor that
\* is not open is no error of this step.
C20_TunnelMarkedSocketWrapped ==
  \A p \in Live :
    /\ TunFdStr(p) # "" /\ pc[p] \notin {"Start", "OpenTUN"} =>
         IF Malformed(TunFdStr(p))
         THEN loc[p].tdev = -1 /\ loc[p].err # "" /\ fds[p] = LaunchFds(p)
         ELSE LET fd == ParseUint(TunFdStr(p)).val IN
              /\ loc[p].tdev # -1 =>
                   /\ loc[p].tdev = fd
                   /\ fds[p][fd].kind = "tun" /\ fds[p][fd].nb
              /\ ~IsOpen(LaunchFds(p), fd) =>
                   /\ loc[p].tdev = -1 /\ fds[p] = LaunchFds(p)
                   /\ pc[p] \in {"NewLogger", "CheckTUN"} /\ loc[p].err = "EBADF"
    /\ UapiFdStr(p) # "" /\ pc[p] = "OpenUAPI" /\ status[p] = "exited" =>
         Malformed(UapiFdStr(p)) /\ loc[p].fileUAPI = -1
    /\ UapiFdStr(p) # "" /\ pc[p] \notin {"Start", "OpenTUN", "NewLogger", "CheckTUN", "OpenUAPI"} =>
         /\ ~Malformed(UapiFdStr(p))
         /\ loc[p].fileUAPI = ParseUint(UapiFdStr(p)).val
         /\ loc[p].fileUAPI # loc[p].tdev =>
              fds[p][loc[p].fileUAPI] = LaunchFds(p)[loc[p].fileUAPI]

\* C20 witness: the relaunched process has adopted the tunnel on descriptor
\* 3, marked non-blocking, and the socket on descriptor 4, left blocking, and
\* listens on it
C20_Witness ==
  \E p \in Live :
    /\ TunFdStr(p) = "3" /\ UapiFdStr(p) = "4"
    /\ loc[p].tdev = 3 /\ fds[p][3].nb
    /\ loc[p].fileUAPI = 4 /\ ~fds[p][4].nb
    /\ rt[p].uapi = "open"

====
